---- MODULE Spec2Model ----
(***************************************************************************)
(* Model of the SoundScape web client: the AudioRecorder capture engine    *)
(* (web/js/recorder.js), the UI controller state machine (app.js, the      *)
(* richer of the two controller variants) and the CRJApi analysis call     *)
(* (web/js/api-client.js).                                                 *)
(*                                                                         *)
(* The browser runs one task at a time.  An action of this model is one    *)
(* task of the event loop together with the microtasks (promise            *)
(* continuations) it triggers: a click handler up to its first pending     *)
(* await, the settlement of getUserMedia followed by the rest of start()   *)
(* and of the click handler, one interval callback, one animation frame,   *)
(* the MediaRecorder stop event, the settlement of fetch, one timeout.     *)
(***************************************************************************)
EXTENDS Integers, Sequences, FiniteSets, TLC

\* ---------------------------------------------------------------- bounds
\* number of AudioRecorder objects the record trigger may create in a run
MaxRecorders == 2
\* number of change events of the file input in a run
MaxFiles == 1
\* number of periodic dataavailable events of one MediaRecorder
MaxChunks == 1
\* maxDurationMs in units of the model clock (the code uses 30000 ms)
MaxDurationTicks == 2

\* length of the longest candidate sequence of a result document
MaxCandidates == 2
\* length of the longest gamaka event sequence of a result document
MaxGamakas == 3
\* length of the longest generated pitch contour of a result document
MaxFrames == 4

\* ------------------------------------------------------------- constants
MaxFileBytes == 10 * 1024 * 1024

Recorders == 1..MaxRecorders
\* sizes of a delivered chunk (0 is an empty chunk)
ChunkSizes == {0, 1}
\* advance of Date.now() - startTime between two interval callbacks, in clock units
Steps == {1, 2}
\* sizes of the selected file: at the limit and one byte above it
FileSizes == {MaxFileBytes, MaxFileBytes + 1}
\* the largest elapsed time an interval callback reports
MaxElapsed == MaxDurationTicks + 2
MaxRequests == MaxRecorders + MaxFiles

VARIABLES
    mediaRecorderDefined, \* typeof MediaRecorder !== 'undefined' in this runtime
    supported,            \* the encodings MediaRecorder.isTypeSupported accepts
    view,                 \* the latest NotationRenderer call: its input and output
    dom,                  \* the controls and cards written by setState and the handlers
    recordingStatus,      \* the status line: its text and whether it has the error class
    recorder,             \* the controller's AudioRecorder reference, 0 for null
    lastResult,           \* the stored AnalysisResult: 0 for null, else the request it came from
    created,              \* number of AudioRecorder objects constructed so far
    rec,                  \* the fields of each AudioRecorder
    requests,             \* the runAnalysis invocations, by order of issue
    filesChosen,          \* number of change events handled so far
    log,                  \* per recorder: counts of acquisitions, releases and callbacks
    page,                 \* the controller script the page loads: "app" or "ui"
    controls,             \* the values of the tonic, algorithm and script inputs
    controlsAtStart,      \* what `controls` was when the latest capture started
    form,                 \* the fields of the FormData of the latest analysis call
    presets,              \* the tuning-preset fetch of the initialization
    delivered             \* per recorder: the chunk sizes a watched MediaRecorder handed over

\* the configuration inputs, how they were filled and what is remembered of
\* them
inputs == <<page, presets, controls, controlsAtStart>>

\* the browser the page runs in
runtime == <<mediaRecorderDefined, supported>>

vars == <<runtime, view, delivered, dom, recordingStatus, recorder, lastResult,
          created, rec, requests, filesChosen, log, inputs, form>>

\* ------------------------------------------------------------ AudioRecorder
\* constructor: no device, no recorder, no timer.  pc is the position of
\* start(); onstop is the caller awaiting the stop event, "none" when no stop
\* event is pending; raf is the pending animation frame of _drawLoop; elapsed
\* is Date.now() - startTime as the latest interval callback saw it, kept only
\* while the interval is set; opts is the options object given to the
\* MediaRecorder constructor, as the sequence of the encodings it asks for.
AudioRecorder ==
    [pc |-> "new", stream |-> FALSE, audioCtx |-> FALSE, analyserNode |-> FALSE,
     mediaRecorder |-> "null", audioChunks |-> <<>>, elapsed |-> 0,
     timerInterval |-> FALSE, onstop |-> "none", raf |-> FALSE, opts |-> <<>>]

\* what has happened to one recorder so far: getUserMedia resolutions
\* (acquired), track stops (released) and context closes (closed) made by
\* _cleanup, onMaxReached calls (maxReached), stop() promises resolved with a
\* blob (clips), whether one resolved with null (nullStop), whether stop() was
\* called by a client while the MediaRecorder was recording (explicitActive),
\* the interval callbacks that ran after such a call (lateTicks), and whether
\* onWaveformData (lateFrames) or onDurationUpdate (lateUpdates) was called
\* while the MediaRecorder was not recording; clipType and clipParts are the
\* type and the chunks of the latest blob a stop() promise resolved with;
\* reportedMax is whether onDurationUpdate was called with an elapsed time of
\* maxDurationMs or more
NoLog ==
    [acquired |-> 0, released |-> 0, closed |-> 0, maxReached |-> 0, clips |-> 0,
     nullStop |-> FALSE, explicitActive |-> FALSE, lateTicks |-> 0,
     lateFrames |-> FALSE, lateUpdates |-> FALSE, clipType |-> <<>>,
     clipParts |-> <<>>, reportedMax |-> FALSE]

Range(s) == {s[i] : i \in DOMAIN s}

\* _selectMimeType's preference list; an encoding tag is written as the
\* sequence of its parts, the empty string as <<>>
types ==
    << <<"audio/", "webm", ";codecs=", "opus">>,
       <<"audio/", "webm">>,
       <<"audio/", "ogg", ";codecs=", "opus">>,
       <<"audio/", "mp4">> >>

\* the loop of _selectMimeType over the list ts: the first t with
\* typeof MediaRecorder !== 'undefined' && MediaRecorder.isTypeSupported(t),
\* else ''
RECURSIVE selectFirst(_)
selectFirst(ts) ==
    IF ts = <<>> THEN <<>>
    ELSE IF mediaRecorderDefined /\ Head(ts) \in supported THEN Head(ts)
    ELSE selectFirst(Tail(ts))

\* this.mimeType = this._selectMimeType(), the same for every AudioRecorder
\* of a page
mimeType == selectFirst(types)

\* String.prototype.includes, for a part of an encoding tag
includes(type, part) == \E i \in DOMAIN type : type[i] = part

\* an extension that is '.webm' whatever the tag
extAlwaysWebm(type) == ".webm"
\* CRJApi.analyze: ext, from (blob.type || '')
ext(type) ==
    IF includes(type, "webm") THEN ".webm"
    ELSE IF includes(type, "ogg") THEN ".ogg"
    ELSE IF includes(type, "mp4") THEN ".m4a"
    ELSE ".webm"

RECURSIVE SumSeq(_)
SumSeq(s) == IF s = <<>> THEN 0 ELSE Head(s) + SumSeq(Tail(s))

\* new Blob(this.audioChunks, { type: this.mimeType || 'audio/webm' }): the
\* concatenation of the chunks
Blob(chunks) ==
    [isNull |-> FALSE, parts |-> chunks, size |-> SumSeq(chunks),
     type |-> IF mimeType = <<>> THEN <<"audio/", "webm">> ELSE mimeType]
NullBlob == [isNull |-> TRUE, parts |-> <<>>, size |-> 0, type |-> <<>>]

\* JavaScript truthiness of a stop() result: every Blob object is truthy
Truthy(blob) == ~blob.isNull

\* an ondataavailable that puts the new chunk before the ones it holds
ondataavailablePrepended(chunks, size) ==
    IF size > 0 THEN <<size>> \o chunks ELSE chunks
\* ondataavailable: only non-empty chunks are kept
ondataavailable(chunks, size) == IF size > 0 THEN Append(chunks, size) ELSE chunks

\* a faulty test for auto-stop that fires one clock unit early
MaxReachedEarly(elapsed) == elapsed + 1 >= MaxDurationTicks
\* a faulty test for auto-stop that never fires
MaxReachedNever(elapsed) == FALSE
\* the interval callback's test for auto-stop: elapsed >= this.maxDurationMs
MaxReached(elapsed) == elapsed >= MaxDurationTicks

\* a faulty stop() that leaves the interval set
clearIntervalLeaked(t) == t
\* clearInterval(this.timerInterval); this.timerInterval = null
clearInterval(t) == FALSE

\* the test stop() makes before finalizing: nothing to stop
NothingToStop(m) == m = "null" \/ m = "inactive"

\* _cleanup on the fields of one recorder: release what is held, once
cleanupFields(a) == [a EXCEPT !.stream = FALSE, !.audioCtx = FALSE]

\* a faulty _cleanup without its two guards: it stops and closes every time
cleanupLogUnguarded(a, l) ==
    [l EXCEPT !.released = @ + 1, !.closed = @ + 1]
\* _cleanup on the counters: a track stop and a context close per held handle
cleanupLog(a, l) ==
    [l EXCEPT !.released = IF a.stream THEN @ + 1 ELSE @,
              !.closed = IF a.audioCtx THEN @ + 1 ELSE @]

\* ---------------------------------------------------------------- controller
\* a setState that never hides the processing card
setStateCardLeft(d, s) ==
    [d EXCEPT !.state = s,
              !.btnRecordDisabled = (s # "idle"),
              !.btnStopDisabled = (s # "recording"),
              !.fileInputDisabled = (s # "idle"),
              !.processingCard = IF s = "processing" THEN "block" ELSE @,
              !.resultsCard = IF s = "results" THEN "block" ELSE "none"]
\* setState(s): the affordances are functions of s.  The texts of the timer
\* and progress displays, which no handler reads, are left out of the model.
setState(d, s) ==
    [d EXCEPT !.state = s,
              !.btnRecordDisabled = (s # "idle"),
              !.btnStopDisabled = (s # "recording"),
              !.fileInputDisabled = (s # "idle"),
              !.processingCard = IF s = "processing" THEN "block" ELSE "none",
              !.resultsCard = IF s = "results" THEN "block" ELSE "none"]

\* A text is the sequence of the strings concatenated into it.
\* showError(msg)
showErrorStatus(msg) == [text |-> msg, error |-> TRUE]
\* clearError()
clearErrorStatus == [text |-> <<>>, error |-> FALSE]

\* runAnalysis up to its first await: Processing, then the request is issued
runAnalysisDom(d) == setState(d, "processing")
\* `file` is the name of the file part: analyzeFile appends the chosen file
\* under its own name, analyze appends the clip as 'recording' + ext
runAnalysisRequest(blob, isFile) ==
    [pc |-> "fetch", isFile |-> isFile, size |-> blob.size, stored |-> FALSE,
     views |-> {},
     file |-> IF isFile THEN <<blob.name>> ELSE <<"recording", ext(blob.type)>>]

\* ------------------------------------------------------------------ CRJApi
\* How an analysis call can fail: fetch rejects (transport), or the response
\* is not ok; its body is parseable as JSON or not, and `detail` is the
\* parsed document's detail field, "" for a document without one.
Failures ==
    {[transport |-> TRUE, status |-> "0", parseable |-> FALSE, detail |-> ""],
     [transport |-> FALSE, status |-> "500", parseable |-> FALSE, detail |-> ""],
     [transport |-> FALSE, status |-> "500", parseable |-> TRUE, detail |-> ""],
     [transport |-> FALSE, status |-> "422", parseable |-> TRUE,
      detail |-> "Unsupported audio format"]}

\* r.json().catch(() => ({ detail: 'Server error' }))
json(response) ==
    IF response.parseable THEN [detail |-> response.detail]
    ELSE [detail |-> "Server error"]

\* the message of the Error that analyze / analyzeFile throws:
\* err.detail || 'HTTP ' + r.status, or the message of fetch's own rejection
errorMessage(response) ==
    IF response.transport THEN <<"Failed to fetch">>
    ELSE IF json(response).detail # "" THEN <<json(response).detail>>
    ELSE <<"HTTP ", response.status>>

\* a runAnalysis invocation not made yet, and one that has returned
NoRequest ==
    [pc |-> "none", isFile |-> FALSE, size |-> 0, stored |-> FALSE, views |-> {},
     file |-> <<>>]
Returned ==
    [pc |-> "returned", isFile |-> FALSE, size |-> 0, stored |-> FALSE, views |-> {},
     file |-> <<>>]

\* the sub-views displayResults draws, in its order
SubViews ==
    <<"summary", "notation-compact", "notation-phrases", "notation-full",
      "raga-results", "gamaka-results", "pitch-contour">>

\* The result documents the service may return: `missing` names the first
\* sub-view whose renderer throws on the document because a field it
\* dereferences is absent (result.phrases.forEach, result.duration_s.toFixed,
\* ...), "none" for a complete document.  An absent pitch_contour does not
\* throw: the contour view draws its placeholder.
Documents == {[missing |-> "none"], [missing |-> "notation-phrases"]}

RECURSIVE drawnBefore(_, _)
drawnBefore(views, missing) ==
    IF views = <<>> \/ Head(views) = missing THEN {}
    ELSE {Head(views)} \cup drawnBefore(Tail(views), missing)

\* a displayResults that leaves the pitch contour out
displayResultsNoContour(result) ==
    [views |-> drawnBefore(SubViews, "pitch-contour"), threw |-> FALSE]
\* displayResults(result): the sub-views drawn, one after the other, until a
\* renderer throws
displayResults(result) ==
    [views |-> drawnBefore(SubViews, result.missing),
     threw |-> result.missing # "none"]

\* the number of runAnalysis invocations so far
Issued == Cardinality({q \in DOMAIN requests : requests[q].pc # "none"})

\* the requests with one more runAnalysis invocation
Submit(request) == [requests EXCEPT ![Issued + 1] = request]

\* the reset control is offered in Results or after an error returned to Idle
btnNewAvailable ==
    \/ dom.state = "results"
    \/ dom.state = "idle" /\ recordingStatus.error

\* ------------------------------------------------------------ configuration
\* Numbers are kept in hundredths; NaN is the number that is not one.
Number(n) == [nan |-> FALSE, v |-> n]
NaN == [nan |-> TRUE, v |-> 0]

\* JavaScript falsiness of a number (0 and NaN) and of a string ('')
FalsyNumber(x) == x.nan \/ x.v = 0
FalsyString(str) == str = ""

\* parseFloat on the input values of the model
parseFloat(str) ==
    CASE str = "261.63" -> Number(26163)
      [] str = "440" -> Number(44000)
      [] str = "0" -> Number(0)
      [] str = "-5" -> Number(-500)
      [] OTHER -> NaN

\* the values the configuration inputs can hold: the tonic preset select
\* (a preset, the 'custom' entry, or nothing when no option exists), the
\* custom tonic field, the algorithm select and the script select
PresetValues == {"261.63", "custom", ""}
CustomValues == {"", "440", "0", "-5", "abc"}
Algorithms == {"pyin", "crepe"}
Scripts == {"iast", "devanagari"}

AllControls ==
    [saPreset : PresetValues, saCustom : CustomValues,
     algorithm : Algorithms, script : Scripts]

\* the inputs as the page shows them first
DefaultControls ==
    [saPreset |-> "261.63", saCustom |-> "", algorithm |-> "pyin", script |-> "iast"]

\* Between two runs of the handlers only the latest values of the inputs
\* matter, so the whole system is run with the user moving between two
\* settings that differ in the tonic, the algorithm and the script.
ControlSettings ==
    {DefaultControls,
     [saPreset |-> "custom", saCustom |-> "440", algorithm |-> "crepe",
      script |-> "devanagari"]}

\* the tonic getOptions reads: the preset, or the custom field with the
\* 261.63 fallback
referenceSaHz(c) ==
    IF c.saPreset = "custom"
    THEN IF FalsyNumber(parseFloat(c.saCustom)) THEN Number(26163)
         ELSE parseFloat(c.saCustom)
    ELSE parseFloat(c.saPreset)

\* getOptions of the legacy controller: no includeContour property
getOptionsLegacy(c) ==
    [referenceSaHz |-> referenceSaHz(c), algorithm |-> c.algorithm,
     script |-> c.script]

\* a getOptions that answers with the values held when the capture started
getOptionsAtStart(c) ==
    [referenceSaHz |-> referenceSaHz(controlsAtStart),
     algorithm |-> controlsAtStart.algorithm,
     script |-> controlsAtStart.script, includeContour |-> TRUE]
\* getOptions(): read from the inputs c when it is called
getOptions(c) ==
    [referenceSaHz |-> referenceSaHz(c), algorithm |-> c.algorithm,
     script |-> c.script, includeContour |-> TRUE]

\* the form fields CRJApi.analyze / analyzeFile append besides the file,
\* each with its default for a falsy or missing option
formFields(options) ==
    [reference_sa_hz |-> IF FalsyNumber(options.referenceSaHz) THEN Number(26163)
                         ELSE options.referenceSaHz,
     algorithm |-> IF FalsyString(options.algorithm) THEN "pyin" ELSE options.algorithm,
     script |-> IF FalsyString(options.script) THEN "iast" ELSE options.script,
     tolerance_cents |-> IF "toleranceCents" \in DOMAIN options
                         THEN options.toleranceCents ELSE 40,
     include_contour |-> IF "includeContour" \in DOMAIN options
                         THEN options.includeContour ELSE FALSE]

\* no analysis call has been made
NoForm ==
    [reference_sa_hz |-> NaN, algorithm |-> "", script |-> "",
     tolerance_cents |-> 0, include_contour |-> FALSE]

\* runAnalysis: const opts = getOptions(), passed to the call
runAnalysisForm ==
    formFields(IF page = "app" THEN getOptions(controls)
               ELSE getOptionsLegacy(controls))

\* ------------------------------------------------------ NotationRenderer
\* A string supplied by the analysis service is written as the sequence of
\* its parts: a part is a character that matters to an HTML parser ("<", ">",
\* "&") or a run of other characters.
Special == {"<", ">", "&"}

\* the character references the HTML serializer writes for text content
Reference(ch) ==
    CASE ch = "<" -> "&lt;"
      [] ch = ">" -> "&gt;"
      [] ch = "&" -> "&amp;"
      [] OTHER -> ch

\* _esc(str): d.textContent = str; return d.innerHTML
_esc(str) == [i \in DOMAIN str |-> Reference(str[i])]

\* the controller's escapeHtml(str), the same two statements
escapeHtml(str) == [i \in DOMAIN str |-> Reference(str[i])]

\* Array.prototype.join(sep) over strings
RECURSIVE join(_, _)
join(strs, sep) ==
    IF strs = <<>> THEN <<>>
    ELSE IF Len(strs) = 1 THEN strs[1]
    ELSE strs[1] \o <<sep>> \o join(Tail(strs), sep)

\* a toFixed(0) that drops the fraction
toFixed0Floor(tenths) == tenths \div 10
\* x.toFixed(0) for x >= 0 given in tenths: the nearest integer, the larger
\* one of two equally near
toFixed0(tenths) == (tenths + 5) \div 10

\* the class of the rank badge of row i (i counts from 0 in the code)
rankClass(i) ==
    CASE i = 1 -> "raga-rank--1"
      [] i = 2 -> "raga-rank--2"
      [] i = 3 -> "raga-rank--3"
      [] OTHER -> "raga-rank--default"

\* one row of renderRagas: what is inserted at each place of the template
\* assigned to div.innerHTML.  confidence is in thousandths, so confidence *
\* 100 is that many tenths.
ragaRow(c, i) ==
    LET pct == toFixed0(c.confidence)
    IN [rank |-> i, rankClass |-> rankClass(i),
        name |-> _esc(c.raga_name),
        number |-> <<ToString(c.raga_number)>>,
        width |-> <<0, "%">>,
        targetWidth |-> <<pct, "%">>,
        pctText |-> <<pct, "%">>,
        arohana |-> join(c.arohana, " "),
        avarohana |-> join(c.avarohana, " ")]

\* a renderRagas without the empty-state branch
NoCandidatesNever(candidates) == FALSE
\* renderRagas' test !candidates.length
NoCandidates(candidates) == Len(candidates) = 0

\* renderRagas(candidates, container): the empty-state paragraph, or one row
\* per candidate and the bar animation scheduled
renderRagas(candidates) ==
    IF NoCandidates(candidates)
    THEN [emptyState |-> TRUE, rows |-> <<>>, animation |-> FALSE]
    ELSE [emptyState |-> FALSE,
          rows |-> [i \in DOMAIN candidates |-> ragaRow(candidates[i], i)],
          animation |-> Len(candidates) > 0]

\* the callback of requestAnimationFrame and setTimeout(100): every bar gets
\* its target width
animateBars(ragas) ==
    LET shown(row) == [row EXCEPT !.width = row.targetWidth]
    IN [emptyState |-> ragas.emptyState, animation |-> FALSE,
        rows |-> [i \in DOMAIN ragas.rows |-> shown(ragas.rows[i])]]

\* GAMAKA_COLORS
GAMAKA_COLORS ==
    (<<"kampita">> :> "#dbb978") @@ (<<"jaru">> :> "#66bb6a") @@
    (<<"sphuritham">> :> "#e0a840") @@ (<<"steady">> :> "#6b7394")

\* this.GAMAKA_COLORS[type] || '#6b7394'
gamakaColor(type) ==
    IF type \in DOMAIN GAMAKA_COLORS THEN GAMAKA_COLORS[type] ELSE "#6b7394"

\* The property keys that are canonical array indices, with their values: an
\* object lists these first, in ascending order, whenever its keys are listed.
IndexKeys == (<<"2">> :> 2) @@ (<<"10">> :> 10)

\* the tally `counts`: its keys in order of creation and the count of each.
\* counts[g.gamaka_type] = (counts[g.gamaka_type] || 0) + 1
RECURSIVE tally(_, _)
tally(gamakas, counts) ==
    IF gamakas = <<>> THEN counts
    ELSE LET type == Head(gamakas).gamaka_type
         IN tally(Tail(gamakas),
                  IF type \in DOMAIN counts.n
                  THEN [counts EXCEPT !.n[type] = @ + 1]
                  ELSE [created |-> Append(counts.created, type),
                        n |-> counts.n @@ (type :> 1)])

\* the keys of an object in the order Object.entries lists them: the array
\* indices ascending, then the other strings in order of creation
RECURSIVE ascending(_)
ascending(keys) ==
    IF keys = {} THEN <<>>
    ELSE LET least == CHOOSE k \in keys : \A j \in keys : IndexKeys[k] <= IndexKeys[j]
         IN <<least>> \o ascending(keys \ {least})

ownKeys(inOrder) ==
    ascending({k \in Range(inOrder) : k \in DOMAIN IndexKeys})
      \o SelectSeq(inOrder, LAMBDA k : k \notin DOMAIN IndexKeys)

\* type.charAt(0).toUpperCase() + type.slice(1), on the names of the model
capitalize(type) ==
    IF type = <<>> THEN type
    ELSE [type EXCEPT ![1] =
            CASE @ = "kampita" -> "Kampita"
              [] @ = "jaru" -> "Jaru"
              [] @ = "sphuritham" -> "Sphuritham"
              [] @ = "steady" -> "Steady"
              [] @ = "nokku" -> "Nokku"
              [] OTHER -> @]

\* one item of renderGamakas: what is inserted into item.innerHTML
gamakaItem(type, count) ==
    [color |-> gamakaColor(type),
     name |-> capitalize(type),
     count |-> <<count, " segment">> \o (IF count # 1 THEN <<"s">> ELSE <<>>)]

\* renderGamakas(gamakas, container): one item per entry of the tally
renderGamakas(gamakas) ==
    LET counts == tally(gamakas, [created |-> <<>>, n |-> <<>>])
        keys == ownKeys(counts.created)
    IN [i \in DOMAIN keys |-> gamakaItem(keys[i], counts.n[keys[i]])]

\* one item of renderSummary: _summaryItem(label, value), with the value
\* escaped
_summaryItem(label, value) == [label |-> label, value |-> _esc(value)]

\* String.prototype.toUpperCase, on the names of the model
toUpperCase(str) ==
    [i \in DOMAIN str |->
       CASE str[i] = "pyin" -> "PYIN"
         [] str[i] = "crepe" -> "CREPE"
         [] OTHER -> str[i]]

\* x.toFixed(1) for x >= 0 given in tenths
toFixed1(tenths) == ToString(tenths \div 10) \o "." \o ToString(tenths % 10)

\* renderSummary(result, container); duration_s is in tenths of a second
renderSummary(result) ==
    <<_summaryItem("Duration", <<toFixed1(result.duration_s), "s">>),
      _summaryItem("Reference Sa", <<ToString(result.reference_sa_hz), " Hz">>),
      _summaryItem("Algorithm", toUpperCase(result.algorithm)),
      _summaryItem("Swaras", join(result.unique_swaras, ", "))>>

\* ---- renderContour
\* A frame is [timestamp_ms, frequency_hz, confidence], the confidence in
\* hundredths; a contour is null or an array of frames.
NullContour == [isNull |-> TRUE, frames |-> <<>>]
Contour(frames) == [isNull |-> FALSE, frames |-> frames]

\* a test that sends only an absent series to the placeholder
NoContourDataAbsentOnly(contour) == contour.isNull
\* renderContour's first test: !contour || !contour.length
NoContourData(contour) == contour.isNull \/ Len(contour.frames) = 0

\* the filter of the voiced frames: frequency_hz > 0 && confidence > 0.2
isVoiced(f) == f.frequency_hz > 0 /\ f.confidence > 20
voiced(frames) == SelectSeq(frames, isVoiced)

\* the test of the two drawing loops for a frame they skip:
\* frequency_hz <= 0 || confidence < 0.2
isSkipped(f) == f.frequency_hz <= 0 \/ f.confidence < 20

\* the axis bounds in tenths of a hertz: min * 0.9 and max * 1.1
fMin(frames) ==
    LET freqs == {f.frequency_hz : f \in Range(voiced(frames))}
    IN 9 * (CHOOSE m \in freqs : \A h \in freqs : m <= h)
fMax(frames) ==
    LET freqs == {f.frequency_hz : f \in Range(voiced(frames))}
    IN 11 * (CHOOSE m \in freqs : \A h \in freqs : m >= h)
tMin(frames) == frames[1].timestamp_ms
tMax(frames) == frames[Len(frames)].timestamp_ms

\* xScale(ms) = padding.left + ((ms - tMin) / (tMax - tMin)) * plotW: NaN where
\* tMax = tMin (0 / 0), else increasing in ms.  A position on the time axis is
\* kept as its ms value.
xScale(ms, frames) ==
    IF tMax(frames) = tMin(frames) THEN NaN ELSE Number(ms)

\* The current path of the 2D context is a sequence of sub-paths, each a
\* sequence of points.  moveTo and lineTo do nothing when a coordinate is NaN;
\* lineTo on an empty path starts a sub-path.  A point keeps its frequency,
\* or that it lies on the bottom edge of the plot.
Point(x, hz, bottom) == [x |-> x.v, hz |-> hz, bottom |-> bottom]
moveTo(path, x, hz, bottom) ==
    IF x.nan THEN path ELSE Append(path, <<Point(x, hz, bottom)>>)
lineTo(path, x, hz, bottom) ==
    IF x.nan THEN path
    ELSE IF path = <<>> THEN <<<<Point(x, hz, bottom)>>>>
    ELSE [path EXCEPT ![Len(path)] = Append(@, Point(x, hz, bottom))]

\* the loop of the contour line from frame i on: moveTo at the first frame
\* after a skipped one, lineTo otherwise
RECURSIVE lineLoop(_, _, _, _)
lineLoop(frames, i, started, path) ==
    IF i > Len(frames) THEN path
    ELSE LET f == frames[i]
             x == xScale(f.timestamp_ms, frames)
         IN IF isSkipped(f) THEN lineLoop(frames, i + 1, FALSE, path)
            ELSE IF ~started
            THEN lineLoop(frames, i + 1, TRUE, moveTo(path, x, f.frequency_hz, FALSE))
            ELSE lineLoop(frames, i + 1, TRUE, lineTo(path, x, f.frequency_hz, FALSE))

\* the loop of the confidence shading from frame i on: each run is closed
\* down to the bottom edge and filled when a skipped frame or the end of the
\* series follows it.  `filled` collects the sub-paths of every fill().
RECURSIVE fillLoop(_, _, _, _, _, _)
fillLoop(frames, i, started, lastX, path, filled) ==
    IF i > Len(frames)
    THEN IF started THEN filled \o lineTo(path, lastX, 0, TRUE) ELSE filled
    ELSE LET f == frames[i]
             x == xScale(f.timestamp_ms, frames)
         IN IF isSkipped(f)
            THEN IF started
                 THEN fillLoop(frames, i + 1, FALSE, lastX, <<>>,
                               filled \o lineTo(path, lastX, 0, TRUE))
                 ELSE fillLoop(frames, i + 1, FALSE, lastX, path, filled)
            ELSE IF ~started
            THEN fillLoop(frames, i + 1, TRUE, x,
                          lineTo(moveTo(path, x, 0, TRUE), x, f.frequency_hz, FALSE),
                          filled)
            ELSE fillLoop(frames, i + 1, TRUE, x,
                          lineTo(path, x, f.frequency_hz, FALSE), filled)

\* the dashed lines at the tonic, its fifth (x 1.5) and its octave (x 2), each
\* drawn when it lies within the frequency bounds
referenceLines(saHz, frames) ==
    {l \in {[name |-> "Sa", tenths |-> 10 * saHz],
            [name |-> "Pa", tenths |-> 15 * saHz],
            [name |-> "upper Sa", tenths |-> 20 * saHz]} :
        l.tenths >= fMin(frames) /\ l.tenths <= fMax(frames)}

nTicks == 6
nYTicks == 4

\* the time axis: for i = 0 .. nTicks a label and a gridline at
\* xScale(tMin + (tMax - tMin) * i / nTicks); fillText, moveTo and lineTo do
\* nothing at a NaN position.  A tick is kept as its index i.
timeAxis(frames) ==
    IF xScale(tMin(frames), frames).nan THEN <<>>
    ELSE [k \in 1..(nTicks + 1) |-> k - 1]

\* the frequency axis: for i = 0 .. nYTicks a label at
\* yScale(fMin + (fMax - fMin) * i / nYTicks)
freqAxis(frames) == [k \in 1..(nYTicks + 1) |-> k - 1]

\* a canvas nothing was drawn on
BlankCanvas ==
    [background |-> FALSE, placeholder |-> FALSE, referenceLines |-> {},
     line |-> <<>>, shading |-> <<>>, timeLabels |-> <<>>, gridlines |-> <<>>,
     freqLabels |-> <<>>]

\* renderContour(contour, referenceSaHz, canvas)
renderContour(contour, saHz) ==
    IF NoContourData(contour)
    THEN [BlankCanvas EXCEPT !.background = TRUE, !.placeholder = TRUE]
    ELSE IF voiced(contour.frames) = <<>>
    THEN [BlankCanvas EXCEPT !.background = TRUE]
    ELSE [background |-> TRUE, placeholder |-> FALSE,
          referenceLines |-> referenceLines(saHz, contour.frames),
          line |-> lineLoop(contour.frames, 1, FALSE, <<>>),
          shading |-> fillLoop(contour.frames, 1, FALSE, Number(0), <<>>, <<>>),
          timeLabels |-> timeAxis(contour.frames),
          gridlines |-> timeAxis(contour.frames),
          freqLabels |-> freqAxis(contour.frames)]

\* ---- the result documents the renderer is given
\* A default document, and the documents that differ from it in one part:
\* the candidates (names with and without markup characters, five
\* confidences, two scales), the gamaka events (two labels of the colour
\* table, one outside it, two that are array indices, one with markup in it),
\* the contour (absent; frames 10 ms apart, each silent or at 220 Hz with a
\* confidence below, at or above the 0.2 threshold; ten frames of which the
\* third to fifth are below the threshold; a frame at 220 Hz followed by one
\* an octave higher at the threshold), or the other strings.
Results ==
    LET Names == {<<"Kalyani">>, <<"<", "b", "&">>}
        Scales == {<< <<"S">>, <<"R2">> >>, << <<">">> >>}
        Candidates ==
            [raga_name : Names, raga_number : {65},
             confidence : {0, 125, 500, 876, 1000},
             arohana : Scales, avarohana : Scales]
        Labels ==
            {<<"kampita">>, <<"steady">>, <<"nokku">>, <<"2">>, <<"10">>,
             <<"<", "i", ">">>}
        Series(kinds) ==
            [i \in DOMAIN kinds |->
               [timestamp_ms |-> 10 * (i - 1),
                frequency_hz |-> kinds[i].frequency_hz,
                confidence |-> kinds[i].confidence]]
        FrameKinds == [frequency_hz : {0, 220}, confidence : {10, 20, 90}]
        TenFrames ==
            Series([i \in 1..10 |->
                      [frequency_hz |-> 220,
                       confidence |-> IF i \in 3..5 THEN 10 ELSE 90]])
        TwoPitches ==
            Series(<<[frequency_hz |-> 220, confidence |-> 90],
                     [frequency_hz |-> 440, confidence |-> 20]>>)
        DefaultResult ==
            [duration_s |-> 125, reference_sa_hz |-> 220, algorithm |-> <<"pyin">>,
             unique_swaras |-> << <<"Sa">>, <<"Ri2">> >>,
             notation_compact |-> <<"S R2">>, notation_requested |-> <<"sa ri">>,
             raga_candidates |-> <<>>, gamakas |-> <<>>,
             pitch_contour |-> NullContour]
    IN {[DefaultResult EXCEPT !.raga_candidates = c] :
          c \in UNION {[1..n -> Candidates] : n \in 0..MaxCandidates}}
         \cup {[DefaultResult EXCEPT !.gamakas = g] :
                 g \in UNION {[1..n -> [gamaka_type : Labels]] : n \in 0..MaxGamakas}}
         \cup {[DefaultResult EXCEPT !.pitch_contour = c] :
                 c \in {NullContour, Contour(TenFrames), Contour(TwoPitches)} \cup
                       UNION {{Contour(Series(k)) : k \in [1..n -> FrameKinds]} :
                                n \in 0..MaxFrames}}
         \cup {[DefaultResult EXCEPT !.algorithm = t, !.unique_swaras = <<t, t>>,
                                     !.notation_compact = t,
                                     !.notation_requested = t] : t \in Names}

\* the tonic runAnalysis passes on: opts.referenceSaHz, 0 for a falsy one
Tonics == {0, 110, 220}

\* no NotationRenderer call has been made
NoView == [drawn |-> FALSE]

\* a result document has arrived and nothing of it is drawn yet
Received(result, saHz) == [drawn |-> FALSE, result |-> result, referenceSaHz |-> saHz]

\* displayResults(result, referenceSaHz) on the containers and the canvas
displayResultsViews(result, saHz) ==
    [drawn |-> TRUE, result |-> result, referenceSaHz |-> saHz,
     summary |-> renderSummary(result),
     notationCompact |-> escapeHtml(result.notation_compact),
     notationFull |-> escapeHtml(result.notation_requested),
     ragas |-> renderRagas(result.raga_candidates),
     gamakas |-> renderGamakas(result.gamakas),
     contour |-> IF ~result.pitch_contour.isNull
                 THEN renderContour(result.pitch_contour,
                                    IF saHz = 0 THEN result.reference_sa_hz ELSE saHz)
                 ELSE renderContour(NullContour, 0)]

\* --------------------------------------------------------------------- Init
InitDom ==
    [state |-> "idle", btnRecordDisabled |-> FALSE, btnStopDisabled |-> TRUE,
     fileInputDisabled |-> FALSE, processingCard |-> "none", resultsCard |-> "none",
     waveform |-> "cleared"]

\* The page when the DOMContentLoaded handler has run to its end:
\* getTuningPresets was called once (calls) and its promise has settled (pc),
\* every option was added to the tonic select (options), the four handlers
\* are attached (wired), and setState('idle') and clearWaveform() have run.
Ready ==
    [presets |-> [pc |-> "settled", calls |-> 1, options |-> "all", wired |-> TRUE],
     dom |-> InitDom, controls |-> DefaultControls]

\* The page while that handler waits for getTuningPresets: the call is made,
\* no handler is attached, the tonic select has no option, and the controls
\* and cards are as the markup has them, which may be any way.
Awaiting ==
    {[presets |-> [pc |-> "pending", calls |-> 1, options |-> "none", wired |-> FALSE],
      dom |-> d, controls |-> [DefaultControls EXCEPT !.saPreset = ""]] :
       d \in [state : {"unset"}, btnRecordDisabled : BOOLEAN,
              btnStopDisabled : BOOLEAN, fileInputDisabled : BOOLEAN,
              processingCard : {"none", "block"}, resultsCard : {"none", "block"},
              waveform : {"blank"}]}

\* a page with controller script p at one of the moments in `loads`, in a
\* browser whose MediaRecorder, where it has one, supports one of the sets in
\* runtimes
Page(p, runtimes, views, loads) ==
    /\ mediaRecorderDefined \in BOOLEAN
    /\ supported \in (IF mediaRecorderDefined THEN runtimes ELSE {{}})
    /\ view \in views
    /\ \E load \in loads :
         /\ presets = load.presets
         /\ dom = load.dom
         /\ controls = load.controls
         /\ controlsAtStart = load.controls
    /\ recordingStatus = clearErrorStatus
    /\ recorder = 0
    /\ lastResult = 0
    /\ created = 0
    /\ rec = [r \in Recorders |-> AudioRecorder]
    /\ requests = [q \in 1..MaxRequests |-> NoRequest]
    /\ filesChosen = 0
    /\ log = [r \in Recorders |-> NoLog]
    /\ page = p
    /\ delivered = [r \in Recorders |-> <<>>]
    /\ form = NoForm

\* the page, ready, in a browser that supports every encoding of the
\* preference list
Loaded(p) == Page(p, {Range(types)}, {NoView}, {Ready})

Init == Loaded("app")

\* ------------------------------------------------- steps of one AudioRecorder
\* Each of these is what one task does to the recorder's own fields and
\* counters; AudioRecorder objects share no state.  The controller's part of
\* the same task is added by the actions below.

\* start() up to `await getUserMedia(...)`
start(r) ==
    /\ rec[r].pc = "new"
    /\ rec' = [rec EXCEPT ![r].pc = "acquiring"]
    /\ UNCHANGED log

\* getUserMedia rejects: start() rejects with nothing acquired
getUserMediaRejected(r) ==
    /\ rec[r].pc = "acquiring"
    /\ rec' = [rec EXCEPT ![r].pc = "failed"]
    /\ UNCHANGED log

\* getUserMedia resolves: the rest of start().  Where MediaRecorder is
\* undefined the constructor call throws after the stream and the audio
\* context were taken, and start() rejects.
getUserMediaResolved(r) ==
    /\ rec[r].pc = "acquiring"
    /\ log' = [log EXCEPT ![r].acquired = @ + 1]
    /\ rec' = [rec EXCEPT ![r] =
                 IF mediaRecorderDefined
                 THEN [@ EXCEPT !.pc = "started", !.stream = TRUE, !.audioCtx = TRUE,
                                !.analyserNode = TRUE, !.audioChunks = <<>>,
                                !.mediaRecorder = "recording", !.elapsed = 0,
                                !.timerInterval = TRUE, !.raf = TRUE,
                                !.opts = IF mimeType = <<>> THEN <<>>
                                         ELSE <<mimeType>>]
                 ELSE [@ EXCEPT !.pc = "failed", !.stream = TRUE, !.audioCtx = TRUE,
                                !.analyserNode = TRUE, !.audioChunks = <<>>]]

\* a dataavailable event of a recording MediaRecorder with a chunk of `size`
dataavailableOf(r, size) ==
    /\ rec[r].mediaRecorder = "recording"
    /\ rec' = [rec EXCEPT ![r].audioChunks = ondataavailable(@, size)]
    /\ UNCHANGED log

\* a periodic dataavailable event of a recording MediaRecorder (start(250))
dataavailable(r) ==
    /\ Len(rec[r].audioChunks) < MaxChunks
    /\ \E size \in ChunkSizes : dataavailableOf(r, size)
    /\ rec' # rec

\* _drawLoop's test: sample and reschedule only while recording
Drawing(a) == a.analyserNode /\ a.mediaRecorder = "recording"

\* one animation frame of _drawLoop: onWaveformData and a new frame while
\* recording, otherwise the loop ends
drawLoop(r) ==
    /\ rec[r].raf
    /\ rec' = [rec EXCEPT ![r].raf = Drawing(rec[r])]
    /\ log' = [log EXCEPT ![r].lateFrames =
                 @ \/ (Drawing(rec[r]) /\ rec[r].mediaRecorder # "recording")]

\* stop() on recorder r, called by `caller` ("auto" from the interval callback,
\* "explicit" from a client): the timer is cleared; with nothing to stop,
\* _cleanup runs and the promise resolves null at once; otherwise onstop is
\* installed and mediaRecorder.stop() makes the recorder inactive, its stop
\* event still to come
stopFields(a, caller) ==
    IF NothingToStop(a.mediaRecorder)
    THEN [cleanupFields(a) EXCEPT !.timerInterval = clearInterval(@),
                                  !.elapsed = IF clearInterval(a.timerInterval) THEN @ ELSE 0]
    ELSE [a EXCEPT !.timerInterval = clearInterval(@), !.onstop = caller,
                   !.mediaRecorder = "inactive",
                   !.elapsed = IF clearInterval(a.timerInterval) THEN @ ELSE 0]

stopLog(a, l, caller) ==
    LET l1 == [l EXCEPT !.explicitActive =
                            @ \/ (caller = "explicit" /\ a.mediaRecorder = "recording")]
    IN IF NothingToStop(a.mediaRecorder)
       THEN [cleanupLog(a, l1) EXCEPT !.nullStop = TRUE]
       ELSE l1

\* a client's call of stop()
stop(r) ==
    /\ rec' = [rec EXCEPT ![r] = stopFields(rec[r], "explicit")]
    /\ log' = [log EXCEPT ![r] = stopLog(rec[r], log[r], "explicit")]

\* the interval callback that reports the elapsed time and calls the
\* max-duration callback itself, leaving the timer running
intervalCallbackDirect(r) ==
    /\ rec[r].timerInterval
    /\ \E d \in Steps :
         LET e == IF rec[r].elapsed + d > MaxElapsed
                  THEN MaxElapsed ELSE rec[r].elapsed + d
         IN /\ rec' = [rec EXCEPT ![r].elapsed = e]
            /\ log' = [log EXCEPT ![r].maxReached =
                         IF MaxReached(e) /\ @ < 3 THEN @ + 1 ELSE @]

\* one interval callback of recorder r: elapsed = Date.now() - startTime,
\* onDurationUpdate(elapsed), and at the maximum this.stop().then(...); a
\* stop() that resolves null calls nothing further
intervalCallback(r) ==
    /\ rec[r].timerInterval
    /\ \E d \in Steps :
         LET e == IF rec[r].elapsed + d > MaxElapsed
                  THEN MaxElapsed ELSE rec[r].elapsed + d
             a == [rec[r] EXCEPT !.elapsed = e]
             l == [log[r] EXCEPT !.lateTicks = IF @ < 1 /\ log[r].explicitActive
                                               THEN @ + 1 ELSE @,
                                 !.lateUpdates =
                                     @ \/ rec[r].mediaRecorder # "recording",
                                 !.reportedMax = @ \/ e >= MaxDurationTicks]
         IN IF MaxReached(e)
            THEN /\ rec' = [rec EXCEPT ![r] = stopFields(a, "auto")]
                 /\ log' = [log EXCEPT ![r] = stopLog(a, l, "auto")]
            ELSE /\ rec' = [rec EXCEPT ![r] = a]
                 /\ log' = [log EXCEPT ![r] = l]

\* the stop event of recorder r's MediaRecorder: the last chunk, of `size`, is
\* delivered, onstop builds the blob, runs _cleanup and resolves the stop() promise; the
\* interval callback's then() calls onMaxReached(blob) for a truthy blob
onstopEventOf(r, size) ==
    /\ rec[r].onstop # "none"
    /\ LET chunks == ondataavailable(rec[r].audioChunks, size)
           a == [rec[r] EXCEPT !.audioChunks = chunks, !.onstop = "none"]
           l == [cleanupLog(a, log[r]) EXCEPT !.clips = @ + 1,
                                              !.clipType = Blob(chunks).type,
                                              !.clipParts = Blob(chunks).parts]
       IN /\ rec' = [rec EXCEPT ![r] = cleanupFields(a)]
          /\ log' = [log EXCEPT ![r] =
                       IF rec[r].onstop = "auto" /\ Truthy(Blob(chunks))
                       THEN [l EXCEPT !.maxReached = @ + 1]
                       ELSE l]

\* the stop event with any last chunk
onstopEvent(r) == \E size \in ChunkSizes : onstopEventOf(r, size)

\* the captured track ends by itself (device unplugged, permission revoked)
\* while recorder r records: the browser delivers the data gathered so far to
\* ondataavailable, sets the MediaRecorder inactive and fires its stop event.
\* start() installs no onstop or onerror handler (onstop is assigned inside
\* stop() only), so nothing else of the recorder changes.
trackEnded(r) ==
    /\ rec[r].mediaRecorder = "recording"
    /\ \E size \in ChunkSizes :
         rec' = [rec EXCEPT ![r].mediaRecorder = "inactive",
                            ![r].audioChunks = ondataavailable(@, size)]
    /\ UNCHANGED log

\* ------------------------------------------------------- controller actions
\* btnRecord click: clearError, new AudioRecorder, start() up to getUserMedia
RecordClick ==
    /\ presets.wired
    /\ ~dom.btnRecordDisabled
    /\ created < MaxRecorders
    /\ created' = created + 1
    /\ recorder' = created + 1
    /\ start(created + 1)
    /\ recordingStatus' = clearErrorStatus
    /\ UNCHANGED <<runtime, view, delivered, inputs, form, dom, lastResult, requests,
                   filesChosen>>

\* getUserMedia rejects: start() rejects, the handler's catch shows the error
AcquireFail(r) ==
    /\ getUserMediaRejected(r)
    /\ recordingStatus' = showErrorStatus(<<"Microphone error: ", "Permission denied">>)
    /\ dom' = setState(dom, "idle")
    /\ UNCHANGED <<runtime, view, delivered, inputs, form, recorder, lastResult, created,
                   requests, filesChosen>>

\* getUserMedia resolves: the rest of start() (with the first _drawLoop call),
\* then setState('recording'); or start() rejects and the catch runs
AcquireOk(r) ==
    /\ getUserMediaResolved(r)
    /\ IF rec'[r].pc = "started"
       THEN /\ dom' = [setState(dom, "recording") EXCEPT !.waveform = "wave"]
            /\ controlsAtStart' = controls
            /\ UNCHANGED recordingStatus
       ELSE /\ recordingStatus' =
                 showErrorStatus(<<"Microphone error: ", "MediaRecorder is not defined">>)
            /\ dom' = setState(dom, "idle")
            /\ UNCHANGED controlsAtStart
    /\ UNCHANGED <<runtime, view, delivered, controls, page, presets, form, recorder, lastResult,
                   created, requests, filesChosen>>

\* a periodic dataavailable event: the controller is not involved
DataAvailable(r) ==
    /\ dataavailable(r)
    /\ UNCHANGED <<runtime, view, delivered, inputs, form, dom, recordingStatus, recorder,
                   lastResult, created, requests, filesChosen>>

\* one animation frame: onWaveformData is drawWaveform
AnimationFrame(r) ==
    /\ drawLoop(r)
    /\ dom' = IF Drawing(rec[r]) THEN [dom EXCEPT !.waveform = "wave"] ELSE dom
    /\ <<rec, log, dom>>' # <<rec, log, dom>>
    /\ UNCHANGED <<runtime, view, delivered, inputs, form, recordingStatus, recorder,
                   lastResult, created, requests, filesChosen>>

\* one interval callback: onDurationUpdate writes the timer text only
TimerTick(r) ==
    /\ intervalCallback(r)
    /\ UNCHANGED <<runtime, view, delivered, inputs, form, dom, recordingStatus, recorder,
                   lastResult, created, requests, filesChosen>>

\* btnStop click: no recorder, nothing happens; otherwise recorder.stop(), and
\* when that resolves at once (null): recorder = null, showError
StopClick ==
    /\ presets.wired
    /\ ~dom.btnStopDisabled
    /\ recorder # 0
    /\ stop(recorder)
    /\ IF NothingToStop(rec[recorder].mediaRecorder)
       THEN /\ recorder' = 0
            /\ recordingStatus' = showErrorStatus(<<"No audio recorded.">>)
            /\ dom' = setState(dom, "idle")
       ELSE UNCHANGED <<recorder, recordingStatus, dom>>
    /\ UNCHANGED <<runtime, view, delivered, inputs, form, lastResult, created, requests,
                   filesChosen>>

\* the stop event of recorder r, and the awaiting caller's continuation:
\* onMaxReached(blob) sets the status text and calls runAnalysis; the stop
\* handler clears `recorder` and submits a non-empty blob or shows the error
MediaRecorderStop(r) ==
    /\ onstopEvent(r)
    /\ LET blob == Blob(rec'[r].audioChunks)
       IN IF rec[r].onstop = "auto"
          THEN IF Truthy(blob)
               THEN /\ recordingStatus' =
                         [recordingStatus EXCEPT !.text = <<"Max duration reached.">>]
                    /\ dom' = runAnalysisDom(dom)
                    /\ requests' = Submit(runAnalysisRequest(blob, FALSE))
                    /\ form' = runAnalysisForm
                    /\ UNCHANGED recorder
               ELSE UNCHANGED <<recordingStatus, dom, requests, form, recorder>>
          ELSE /\ recorder' = 0
               /\ IF Truthy(blob) /\ blob.size > 0
                  THEN /\ dom' = runAnalysisDom(dom)
                       /\ requests' = Submit(runAnalysisRequest(blob, FALSE))
                       /\ form' = runAnalysisForm
                       /\ UNCHANGED recordingStatus
                  ELSE /\ recordingStatus' = showErrorStatus(<<"No audio recorded.">>)
                       /\ dom' = setState(dom, "idle")
                       /\ UNCHANGED <<requests, form>>
    /\ UNCHANGED <<runtime, view, delivered, inputs, lastResult, created, filesChosen>>

\* a size limit that also rejects a file of exactly the limit
FileTooLargeAtLimit(size) == size >= MaxFileBytes
\* the handler's test: file.size > 10 * 1024 * 1024
FileTooLarge(size) == size > MaxFileBytes

\* fileInput change with a file of `size` bytes: clearError, then the size
\* limit, then runAnalysis(file, true)
FileChange(size) ==
    /\ presets.wired
    /\ ~dom.fileInputDisabled
    /\ filesChosen < MaxFiles
    /\ filesChosen' = filesChosen + 1
    /\ IF FileTooLarge(size)
       THEN /\ recordingStatus' = showErrorStatus(<<"File too large (max 10 MB).">>)
            /\ dom' = setState(dom, "idle")
            /\ UNCHANGED <<requests, form>>
       ELSE /\ recordingStatus' = clearErrorStatus
            /\ dom' = runAnalysisDom(dom)
            /\ requests' = Submit(runAnalysisRequest([size |-> size, name |-> "upload"], TRUE))
            /\ form' = runAnalysisForm
    /\ UNCHANGED <<runtime, view, delivered, inputs, recorder, lastResult, created, rec,
                   log>>

\* the analysis call of request q succeeds: the 200 ms pause begins
FetchOk(q) ==
    /\ requests[q].pc = "fetch"
    /\ requests' = [requests EXCEPT ![q].pc = "pause200"]
    /\ UNCHANGED <<runtime, view, delivered, inputs, form, dom, recordingStatus, recorder,
                   lastResult, created, rec, filesChosen, log>>

\* a runAnalysis without its catch: the rejection ends the call and nothing
\* is shown
throwFromUncaught(q, response) ==
    /\ requests[q].pc = "fetch"
    /\ requests' = [requests EXCEPT ![q] = Returned]
    /\ UNCHANGED <<runtime, view, delivered, inputs, form, dom, recordingStatus,
                   recorder, lastResult, created, rec, filesChosen, log>>

\* the analysis call of request q fails with `response` (fetch rejects, or
\* the response is not ok): analyze throws, the catch of runAnalysis shows the
\* error and returns to idle
throwFrom(q, response) ==
    /\ requests[q].pc = "fetch"
    /\ requests' = [requests EXCEPT ![q] = Returned]
    /\ recordingStatus' =
           showErrorStatus(<<"Analysis failed: ">> \o errorMessage(response))
    /\ dom' = setState(dom, "idle")
    /\ UNCHANGED <<runtime, view, delivered, inputs, form, recorder, lastResult, created,
                   rec, filesChosen, log>>

\* the analysis call of request q fails and the controller issues it again
FetchFailRetry(q) ==
    /\ requests[q].pc = "fetch"
    /\ Issued < MaxRequests
    /\ requests' = [Submit(requests[q]) EXCEPT ![q] = Returned]
    /\ UNCHANGED <<runtime, view, delivered, inputs, form, dom, recordingStatus, recorder,
                   lastResult, created, rec, filesChosen, log>>

FetchFail(q) == \E response \in Failures : throwFrom(q, response)

\* the 200 ms pause of request q ends: the result is stored and displayed
\* and the 300 ms pause begins; or a renderer throws and the catch shows the
\* error.  The document came with the response; nothing reads it earlier.
\* During the 300 ms pause the request keeps whether this call stored its
\* result and the sub-views it drew; what a hidden card still shows from an
\* earlier call is not kept.
Pause200(q) ==
    /\ requests[q].pc = "pause200"
    /\ lastResult' = q
    /\ \E result \in Documents :
         LET d == displayResults(result)
         IN IF d.threw
            THEN /\ requests' = [requests EXCEPT ![q] = Returned]
                 /\ recordingStatus' =
                        showErrorStatus(<<"Analysis failed: ", "TypeError">>)
                 /\ dom' = setState(dom, "idle")
            ELSE /\ requests' = [requests EXCEPT ![q].pc = "pause300",
                                                 ![q].stored = (lastResult' = q),
                                                 ![q].views = d.views]
                 /\ UNCHANGED <<dom, recordingStatus>>
    /\ UNCHANGED <<runtime, view, delivered, inputs, form, recorder, created, rec,
                   filesChosen, log>>

\* the 300 ms pause of request q ends: setState('results')
Pause300(q) ==
    /\ requests[q].pc = "pause300"
    /\ requests' = [requests EXCEPT ![q] = Returned]
    /\ dom' = setState(dom, "results")
    /\ UNCHANGED <<runtime, view, delivered, inputs, form, recordingStatus, recorder,
                   lastResult, created, rec, filesChosen, log>>

\* a reset that keeps the stored result
NewClickKeepsResult ==
    /\ presets.wired
    /\ btnNewAvailable
    /\ dom' = [setState(dom, "idle") EXCEPT !.waveform = "cleared"]
    /\ recordingStatus' = clearErrorStatus
    /\ UNCHANGED <<runtime, view, delivered, inputs, form, recorder, lastResult, created,
                   rec, requests, filesChosen, log>>

\* btnNew click: setState('idle'), clearError, clearWaveform, lastResult = null
NewClick ==
    /\ presets.wired
    /\ btnNewAvailable
    /\ dom' = [setState(dom, "idle") EXCEPT !.waveform = "cleared"]
    /\ recordingStatus' = clearErrorStatus
    /\ lastResult' = 0
    /\ UNCHANGED <<runtime, view, delivered, inputs, form, recorder, created, rec, requests,
                   filesChosen, log>>

Next ==
    \/ RecordClick
    \/ \E r \in Recorders : AcquireOk(r)
    \/ \E r \in Recorders : AcquireFail(r)
    \/ \E r \in Recorders : DataAvailable(r)
    \/ \E r \in Recorders : AnimationFrame(r)
    \/ \E r \in Recorders : TimerTick(r)
    \/ StopClick
    \/ \E r \in Recorders : MediaRecorderStop(r)
    \/ \E size \in FileSizes : FileChange(size)
    \/ \E q \in 1..MaxRequests : FetchOk(q)
    \/ \E q \in 1..MaxRequests : FetchFail(q)
    \/ \E q \in 1..MaxRequests : Pause200(q)
    \/ \E q \in 1..MaxRequests : Pause300(q)
    \/ NewClick

Spec == Init /\ [][Next]_vars

\* ------------------------------------------- the session state on its own
\* The handlers that call setState or touch a request.  The periodic chunks
\* and the animation frames are left out: they write the chunk buffer and the
\* waveform only, and the last chunk of the stop event already makes a clip
\* empty or not.
SessionNext ==
    \/ RecordClick
    \/ \E r \in Recorders : AcquireOk(r)
    \/ \E r \in Recorders : AcquireFail(r)
    \/ \E r \in Recorders : TimerTick(r)
    \/ StopClick
    \/ \E r \in Recorders : MediaRecorderStop(r)
    \/ \E size \in FileSizes : FileChange(size)
    \/ \E q \in 1..MaxRequests : FetchOk(q)
    \/ \E q \in 1..MaxRequests : FetchFail(q)
    \/ \E q \in 1..MaxRequests : Pause200(q)
    \/ \E q \in 1..MaxRequests : Pause300(q)
    \/ NewClick

SessionSpec == Init /\ [][SessionNext]_vars

\* setInterval keeps calling its callback while the interval is set, and the
\* stop event of a stopped MediaRecorder is delivered
FairSpec ==
    /\ SessionSpec
    /\ \A r \in Recorders : WF_vars(TimerTick(r))
    /\ \A r \in Recorders : WF_vars(MediaRecorderStop(r))

\* every analysis call settles (fetch and the reading of its body resolve or
\* reject), and a timeout that was set fires
SettleSpec ==
    /\ SessionSpec
    /\ \A q \in 1..MaxRequests : WF_vars(FetchOk(q) \/ FetchFail(q))
    /\ \A q \in 1..MaxRequests : WF_vars(Pause200(q))
    /\ \A q \in 1..MaxRequests : WF_vars(Pause300(q))

\* ------------------------------------------------ the initialization
\* a preset loading without its catch: when the fetch or the filling of the
\* select throws, the DOMContentLoaded handler ends there
PresetsSettledUncaught(options) ==
    /\ presets.pc = "pending"
    /\ presets' = [presets EXCEPT !.pc = "settled", !.options = options,
                                  !.wired = (options = "all")]
    /\ controls' = [controls EXCEPT !.saPreset = IF options = "none" THEN ""
                                                 ELSE "261.63"]
    /\ dom' = IF options = "all"
              THEN [setState(dom, "idle") EXCEPT !.waveform = "cleared"]
              ELSE dom
    /\ UNCHANGED <<runtime, view, delivered, page, controlsAtStart, form,
                   recordingStatus, recorder, lastResult, created, rec, requests,
                   filesChosen, log>>

\* the promise of getTuningPresets settles and the DOMContentLoaded handler
\* runs to its end.  `options` is what the try block added to the tonic
\* select before it ended or threw: "all" (the presets and the custom entry),
\* "some" (an item of the list made forEach throw) or "none" (fetch or json()
\* rejected, or the body was not an array).  The select shows its first
\* option.  Then the handlers are attached, setState('idle'), clearWaveform().
PresetsSettled(options) ==
    /\ presets.pc = "pending"
    /\ presets' = [presets EXCEPT !.pc = "settled", !.options = options,
                                  !.wired = TRUE]
    /\ controls' = [controls EXCEPT !.saPreset = IF options = "none" THEN ""
                                                 ELSE "261.63"]
    /\ dom' = [setState(dom, "idle") EXCEPT !.waveform = "cleared"]
    /\ UNCHANGED <<runtime, view, delivered, page, controlsAtStart, form,
                   recordingStatus, recorder, lastResult, created, rec, requests,
                   filesChosen, log>>

\* the page from the preset fetch on, then captures and submissions
BootNext ==
    \/ \E options \in {"all", "some", "none"} : PresetsSettled(options)
    \/ SessionNext

BootSpec == Page("app", {Range(types)}, {NoView}, Awaiting) /\ [][BootNext]_vars

\* ------------------------------------------- the configuration inputs in use
\* the user sets the configuration inputs to c; no handler of the controller
\* runs on these events
ControlInput(c) ==
    /\ c # controls
    /\ controls' = c
    /\ UNCHANGED <<runtime, view, delivered, page, presets, controlsAtStart, form, dom,
                   recordingStatus, recorder, lastResult, created, rec, requests,
                   filesChosen, log>>

\* Captures and submissions with the user changing the configuration at any
\* moment.  Spec keeps the inputs at their first values, since no handler but
\* runAnalysis reads them; here the analysis calls stay unanswered, since
\* what follows a call's settlement touches neither the inputs nor a request
\* already built.
ConfigNext ==
    \/ RecordClick
    \/ \E r \in Recorders : AcquireOk(r)
    \/ \E r \in Recorders : AcquireFail(r)
    \/ \E r \in Recorders : DataAvailable(r)
    \/ \E r \in Recorders : AnimationFrame(r)
    \/ \E r \in Recorders : TimerTick(r)
    \/ StopClick
    \/ \E r \in Recorders : MediaRecorderStop(r)
    \/ \E size \in FileSizes : FileChange(size)
    \/ NewClick
    \/ \E c \in ControlSettings : ControlInput(c)

ConfigSpec == Init /\ [][ConfigNext]_vars

\* The request built from the inputs, on its own: any values of the inputs,
\* either controller script, and runAnalysis up to the analysis call.
AnalyzeCall ==
    /\ form' = runAnalysisForm
    /\ UNCHANGED <<runtime, view, delivered, inputs, dom, recordingStatus, recorder,
                   lastResult, created, rec, requests, filesChosen, log>>

FormNext ==
    \/ \E c \in AllControls : ControlInput(c)
    \/ AnalyzeCall

FormSpec == (\E p \in {"app", "ui"} : Loaded(p)) /\ [][FormNext]_vars

\* ------------------------------------------- captures in any browser
\* what MediaRecorder.isTypeSupported can accept of the preference list:
\* nothing, one encoding, the two that are not webm, or all of them
Runtimes ==
    {{}, Range(types), {types[3], types[4]}} \cup {{t} : t \in Range(types)}

\* captures and their submission, the analysis calls left unanswered
CodecNext ==
    \/ RecordClick
    \/ \E r \in Recorders : AcquireOk(r)
    \/ \E r \in Recorders : AcquireFail(r)
    \/ \E r \in Recorders : DataAvailable(r)
    \/ \E r \in Recorders : AnimationFrame(r)
    \/ \E r \in Recorders : TimerTick(r)
    \/ StopClick
    \/ \E r \in Recorders : MediaRecorderStop(r)

CodecSpec == Page("app", Runtimes, {NoView}, {Ready}) /\ [][CodecNext]_vars

\* ------------------------------------------------ the renderer on its own
\* displayResults on a result document that has arrived: every container and
\* the canvas are written in one task
DisplayResults ==
    /\ view # NoView
    /\ ~view.drawn
    /\ view' = displayResultsViews(view.result, view.referenceSaHz)
    /\ UNCHANGED <<runtime, delivered, dom, recordingStatus, recorder, lastResult,
                   created, rec, requests, filesChosen, log, inputs, form>>

\* the task renderRagas scheduled: requestAnimationFrame, then setTimeout
AnimateBars ==
    /\ view.drawn
    /\ view.ragas.animation
    /\ view' = [view EXCEPT !.ragas = animateBars(@)]
    /\ UNCHANGED <<runtime, delivered, dom, recordingStatus, recorder, lastResult,
                   created, rec, requests, filesChosen, log, inputs, form>>

RenderNext ==
    \/ DisplayResults
    \/ AnimateBars

RenderSpec ==
    /\ \E result \in Results, saHz \in Tonics :
         Page("app", {Range(types)}, {Received(result, saHz)}, {Ready})
    /\ [][RenderNext]_vars

\* --------------------------------------------- AudioRecorders, any client
\* The capture engine on its own: AudioRecorder objects whose client calls
\* start() once and stop() at any moment, any number of times.  What the
\* controller makes a recorder do is one of these runs.
controller == <<inputs, form, dom, recordingStatus, recorder, lastResult, created,
                requests, filesChosen>>

CallStart(r) == start(r) /\ UNCHANGED <<runtime, view, delivered, controller>>
CallStop(r) == stop(r) /\ UNCHANGED <<runtime, view, delivered, controller>>
Rejected(r) == getUserMediaRejected(r) /\ UNCHANGED <<runtime, view, delivered, controller>>
Resolved(r) == getUserMediaResolved(r) /\ UNCHANGED <<runtime, view, delivered, controller>>
Chunk(r) == dataavailable(r) /\ UNCHANGED <<runtime, view, delivered, controller>>
Frame(r) ==
    /\ drawLoop(r)
    /\ <<rec, log>>' # <<rec, log>>
    /\ UNCHANGED <<runtime, view, delivered, controller>>
Interval(r) == intervalCallback(r) /\ UNCHANGED <<runtime, view, delivered, controller>>
StopEvent(r) == onstopEvent(r) /\ UNCHANGED <<runtime, view, delivered, controller>>

EngineNext ==
    \/ \E r \in Recorders : CallStart(r)
    \/ \E r \in Recorders : CallStop(r)
    \/ \E r \in Recorders : Rejected(r)
    \/ \E r \in Recorders : Resolved(r)
    \/ \E r \in Recorders : Chunk(r)
    \/ \E r \in Recorders : Frame(r)
    \/ \E r \in Recorders : Interval(r)
    \/ \E r \in Recorders : StopEvent(r)

EngineSpec == Init /\ [][EngineNext]_vars

\* the recorder with an input device that can go away during a capture
TrackEnded(r) == trackEnded(r) /\ UNCHANGED <<runtime, view, delivered, controller>>

DeviceNext ==
    \/ EngineNext
    \/ \E r \in Recorders : TrackEnded(r)

DeviceSpec == Init /\ [][DeviceNext]_vars

\* ------------------------------------------- a recorder under observation
\* The capture engine with every dataavailable event written down: chunks of
\* sizes that tell them apart, and `delivered` the sizes in the order the
\* events occurred, empty chunks included.  Only these two actions write
\* `delivered`.
WatchedSizes == {0, 1, 2}

\* a periodic dataavailable event, written down
Deliver(r) ==
    /\ Len(delivered[r]) < MaxChunks
    /\ \E size \in WatchedSizes :
         /\ dataavailableOf(r, size)
         /\ delivered' = [delivered EXCEPT ![r] = Append(@, size)]
    /\ UNCHANGED <<runtime, view, controller>>

\* the stop event with its last chunk, written down
Finalize(r) ==
    /\ \E size \in WatchedSizes :
         /\ onstopEventOf(r, size)
         /\ delivered' = [delivered EXCEPT ![r] = Append(@, size)]
    /\ UNCHANGED <<runtime, view, controller>>

ChunkNext ==
    \/ \E r \in Recorders : CallStart(r)
    \/ \E r \in Recorders : CallStop(r)
    \/ \E r \in Recorders : Resolved(r)
    \/ \E r \in Recorders : Interval(r)
    \/ \E r \in Recorders : Deliver(r)
    \/ \E r \in Recorders : Finalize(r)

ChunkSpec == Init /\ [][ChunkNext]_vars

\* --------------------------------------------------------------- vocabulary
\* a capture session: the recorder has acquired the device and is not stopped
Active(r) == rec[r].stream /\ rec[r].mediaRecorder = "recording"

\* recorder r's session is over: start() failed, or the recorder was stopped
\* and its stop event has been handled
Ended(r) ==
    \/ rec[r].pc = "failed"
    \/ rec[r].pc = "started" /\ rec[r].mediaRecorder = "inactive" /\ rec[r].onstop = "none"

\* the analysis call of request q has been issued and has not settled
InFlight(q) == requests[q].pc = "fetch"

\* the interval callback of recorder r stopped the session at the maximum
AutoStopped(r) == rec[r].onstop = "auto" \/ log[r].maxReached > 0

\* the triggers accepted so far: a stop trigger on a recording session, an
\* auto-stop, a file selection
Triggers ==
    filesChosen +
    Cardinality({r \in Recorders : log[r].explicitActive \/ AutoStopped(r)})

\* the transitions of the session state the design lists
ListedTransitions ==
    {<<"idle", "recording">>, <<"recording", "processing">>, <<"recording", "idle">>,
     <<"idle", "processing">>, <<"processing", "results">>, <<"processing", "idle">>,
     <<"results", "idle">>}

\* -------------------------------------------------------------------- claims
\* C1: once a session has ended, on every exit path, the device releases
\* equal the device acquisitions and neither the input stream nor the audio
\* context is still held.
C1_NoLeakedHandle ==
    \A r \in Recorders :
        Ended(r) => /\ log[r].released = log[r].acquired
                    /\ ~rec[r].stream
                    /\ ~rec[r].audioCtx

\* C2: at most one capture session is active at any time.
C2_AtMostOneSession == Cardinality({r \in Recorders : Active(r)}) <= 1

\* C3: no capture session is active while an analysis request is in flight.
C3_CaptureExcludesSubmission ==
    ~ ( /\ \E r \in Recorders : Active(r)
        /\ \E q \in 1..MaxRequests : InFlight(q) )

\* C4: at most one analysis request is in flight at any time.
C4_AtMostOneRequest == Cardinality({q \in 1..MaxRequests : InFlight(q)}) <= 1

\* C5: within one capture session the max-duration callback is invoked at
\* most once.
C5_MaxReachedAtMostOnce == \A r \in Recorders : log[r].maxReached <= 1

C5_Witness ==
    \E r \in Recorders : log[r].maxReached = 1 /\ log[r].nullStop

\* C6: after an explicit stop() on an active session (its elapsed time below
\* the maximum) the timer is cleared, no interval callback runs any more and
\* the max-duration callback is never invoked for that session.
C6_ExplicitStopPreventsAutoStop ==
    \A r \in Recorders :
        log[r].explicitActive => /\ ~rec[r].timerInterval
                                 /\ log[r].lateTicks = 0
                                 /\ log[r].maxReached = 0

C6_Witness ==
    \E r \in Recorders :
        log[r].explicitActive /\ Ended(r) /\ log[r].clips = 1

C9_OnlyListedTransitions ==
    [][dom'.state # dom.state => <<dom.state, dom'.state>> \in ListedTransitions]_vars

\* C10: once in Processing the session state does not change while an analysis
\* call is unsettled, and the reset control is offered only in Results or in
\* an Idle reached by an error.
C10_ProcessingWaitsForSettlement ==
    /\ [][(dom.state = "processing" /\ dom'.state # "processing") =>
            \A q \in 1..MaxRequests : ~InFlight(q)']_vars
    /\ [] (btnNewAvailable =>
             \/ dom.state = "results"
             \/ dom.state = "idle" /\ recordingStatus.error)

\* C11: every runAnalysis call enters Processing and issues exactly one
\* request; a request is issued only by such a call, never again after it has
\* failed or returned; and the requests issued never outnumber the accepted
\* stop, auto-stop and file-selection triggers.
C11_OneRequestPerTrigger ==
    /\ [] (Issued <= Triggers)
    /\ [][ /\ Issued' \in {Issued, Issued + 1}
           /\ (Issued' = Issued + 1) =>
                 /\ dom'.state = "processing"
                 /\ Triggers' >= Issued'
           /\ (dom.state # "processing" /\ dom'.state = "processing") =>
                 Issued' = Issued + 1
           /\ \A q \in 1..MaxRequests :
                 (requests'[q].pc = "fetch") => (requests[q].pc \in {"none", "fetch"}) ]_vars

C11_Witness ==
    /\ Issued = 1
    /\ Triggers = 1
    /\ requests[1] = Returned
    /\ dom.state = "idle"
    /\ recordingStatus.error
    /\ recordingStatus.text # <<>>
    /\ recordingStatus.text[1] = "Analysis failed: "

\* C12: a file of exactly 10 485 760 bytes is accepted and submitted; a file
\* of 10 485 761 bytes or more is rejected with an error, no request is issued
\* for it and the controller is left in Idle.
C12_FileSizeLimit ==
    [][\A size \in FileSizes :
          FileChange(size) =>
              IF size <= 10485760
              THEN /\ Issued' = Issued + 1
                   /\ requests'[Issued'].pc = "fetch"
                   /\ requests'[Issued'].isFile
                   /\ requests'[Issued'].size = size
                   /\ dom'.state = "processing"
                   /\ ~recordingStatus'.error
              ELSE /\ requests' = requests
                   /\ dom.state = "idle"
                   /\ dom'.state = "idle"
                   /\ recordingStatus' =
                          showErrorStatus(<<"File too large (max 10 MB).">>)]_vars

C12_Witness ==
    \E q \in 1..MaxRequests :
        /\ InFlight(q)
        /\ requests[q].isFile
        /\ requests[q].size = 10485760
        /\ dom.state = "processing"

\* C13: from Results the reset trigger leads to Idle and nowhere else, and
\* after it the stored result is null, the waveform display is cleared, and
\* the record trigger and the file input are enabled and the stop trigger is
\* disabled, as initially.
C13_ResetFromResults ==
    [][(dom.state = "results" /\ NewClick) =>
          /\ dom'.state = "idle"
          /\ lastResult' = 0
          /\ dom'.waveform = InitDom.waveform
          /\ dom'.btnRecordDisabled = InitDom.btnRecordDisabled
          /\ dom'.fileInputDisabled = InitDom.fileInputDisabled
          /\ dom'.btnStopDisabled = InitDom.btnStopDisabled
          /\ dom'.resultsCard = "none"]_vars

C13_Witness ==
    /\ dom = InitDom
    /\ lastResult = 0
    /\ ~recordingStatus.error
    /\ created = 1
    /\ Issued = 1
    /\ requests[1] = Returned
    /\ \E r \in Recorders : Ended(r) /\ log[r].clips = 1

\* C14: when start() rejects, the controller was and stays in Idle, the error
\* is shown, no capture session is active afterwards and no request is issued.
C14_AcquisitionFailureStaysIdle ==
    [][\A r \in Recorders :
          (rec[r].pc = "acquiring" /\ rec'[r].pc = "failed") =>
              /\ dom.state = "idle"
              /\ dom'.state = "idle"
              /\ recordingStatus'.error
              /\ recordingStatus'.text[1] = "Microphone error: "
              /\ \A s \in Recorders : ~Active(s)'
              /\ Issued' = Issued]_vars

\* C15: a capture that ends with an absent or empty clip, by the stop trigger
\* or by auto-stop, issues no request: every request made from a recording
\* carries a clip of more than 0 bytes.
C15_EmptyClipNotSubmitted ==
    \A q \in 1..MaxRequests :
        (InFlight(q) /\ ~requests[q].isFile) => requests[q].size > 0

\* C16: a failing analysis call takes the controller from Processing to Idle
\* with an error: the response's detail when the body parses and carries one,
\* the generic 'Server error' when the body does not parse; and that call
\* never reaches Results.
C16_FailureReturnsToIdle ==
    [][\A q \in 1..MaxRequests : \A response \in Failures :
          throwFrom(q, response) =>
              /\ dom.state = "processing"
              /\ dom'.state = "idle"
              /\ recordingStatus'.error
              /\ (~response.transport /\ response.parseable /\ response.detail # "") =>
                    recordingStatus'.text = <<"Analysis failed: ", response.detail>>
              /\ (~response.transport /\ ~response.parseable) =>
                    recordingStatus'.text = <<"Analysis failed: ", "Server error">>
              /\ requests'[q] = Returned]_vars

\* C17: the state becomes Results only at the end of a call that has stored
\* its result and drawn every sub-view (summary, compact notation, phrases,
\* full notation, raga candidates, gamakas, pitch contour) beforehand.
C17_StoredAndDrawnBeforeResults ==
    /\ [][(dom.state # "results" /\ dom'.state = "results") =>
            \E q \in 1..MaxRequests :
                /\ requests[q].pc = "pause300"
                /\ requests'[q] = Returned
                /\ requests[q].stored
                /\ requests[q].views =
                       {"summary", "notation-compact", "notation-phrases",
                        "notation-full", "raga-results", "gamaka-results",
                        "pitch-contour"}]_vars
    /\ [][\A q \in 1..MaxRequests :
             (requests[q].pc = "pause200" /\ requests'[q].pc = "pause300") =>
                 lastResult' = q /\ dom'.state = dom.state]_vars

C17_Witness ==
    /\ dom.state = "results"
    /\ dom.resultsCard = "block"
    /\ lastResult # 0
    /\ requests[lastResult] = Returned

\* C18: the tonic, the algorithm and the script a request carries are the
\* values of the inputs when runAnalysis is called, whatever they were when
\* the capture started.
C18_ConfigurationReadAtSubmission ==
    [][(Issued' = Issued + 1) =>
          /\ form'.algorithm = controls.algorithm
          /\ form'.script = controls.script
          /\ form'.reference_sa_hz =
                 IF FalsyNumber(referenceSaHz(controls)) THEN Number(26163)
                 ELSE referenceSaHz(controls)]_vars

C18_Witness ==
    /\ created = 1
    /\ Issued = 1
    /\ InFlight(1)
    /\ ~requests[1].isFile
    /\ dom.state = "processing"
    /\ form.algorithm = controls.algorithm
    /\ form.algorithm # controlsAtStart.algorithm
    /\ form.script # controlsAtStart.script
    /\ form.reference_sa_hz # referenceSaHz(controlsAtStart)

\* C19: every analysis request carries include_contour = true.
C19_ContourAlwaysRequested ==
    (form # NoForm) => (form.include_contour = TRUE)

\* C20: whenever a session has ended (stop() by a client, auto-stop, a start()
\* that failed, or the input track ending during the capture) its timer is
\* cancelled and onDurationUpdate is not called again, onWaveformData is never
\* called for a recorder that is not recording, and the first animation frame
\* after the end finishes the waveform loop without anyone cancelling it.
C20_TimerAndLoopEndWithSession ==
    /\ [] (\A r \in Recorders :
              /\ (rec[r].mediaRecorder # "recording") => ~rec[r].timerInterval
              /\ (rec[r].pc # "started") => ~rec[r].raf
              /\ ~log[r].lateFrames
              /\ ~log[r].lateUpdates
              /\ log[r].lateTicks = 0)
    /\ [][\A r \in Recorders :
             /\ (rec[r].mediaRecorder # "recording" /\ drawLoop(r)) => ~rec'[r].raf
             /\ (rec[r].mediaRecorder = "inactive" /\ ~rec[r].raf) => ~rec'[r].raf
             /\ (rec[r].mediaRecorder = "inactive") =>
                   rec'[r].mediaRecorder = "inactive"]_vars

\* C30: the reference_sa_hz field of every analysis call is a number greater
\* than 0, whatever the tonic preset (an empty preset list included) and the
\* custom tonic field (empty, non-numeric, zero or negative) hold.
C30_TonicPositive ==
    (form # NoForm) => (~form.reference_sa_hz.nan /\ form.reference_sa_hz.v > 0)

\* --------------------------------------------------- the renderer's claims
\* C21: for every contour series the stroked line has exactly one sub-path
\* per maximal run of consecutive voiced frames, the shading has exactly one
\* filled shape per such run, and no segment of the line joins two frames
\* with an unvoiced frame between them or at its ends.
C21_OneSubPathPerVoicedRun ==
    (view.drawn /\ ~view.result.pitch_contour.isNull) =>
        LET frames == view.result.pitch_contour.frames
            line == view.contour.line
            Runs == {i \in DOMAIN frames :
                       isVoiced(frames[i]) /\ (i = 1 \/ ~isVoiced(frames[i - 1]))}
            VoicedBetween(x1, x2) ==
                \A i \in DOMAIN frames :
                    (x1 <= frames[i].timestamp_ms /\ frames[i].timestamp_ms <= x2)
                        => isVoiced(frames[i])
        IN /\ Len(line) = Cardinality(Runs)
           /\ Len(view.contour.shading) = Cardinality(Runs)
           /\ \A k \in DOMAIN line : \A j \in 1..(Len(line[k]) - 1) :
                  VoicedBetween(line[k][j].x, line[k][j + 1].x)

\* C22: an empty candidate sequence gives the empty-state message and no
\* row; n candidates give n rows, row i made from candidate i, and no
\* empty-state message.
C22_RowsOrEmptyState ==
    view.drawn =>
        LET candidates == view.result.raga_candidates
            rows == view.ragas.rows
        IN IF candidates = <<>>
           THEN view.ragas.emptyState /\ rows = <<>>
           ELSE /\ ~view.ragas.emptyState
                /\ Len(rows) = Len(candidates)
                /\ \A i \in DOMAIN rows :
                      /\ rows[i].rank = i
                      /\ rows[i].name = _esc(candidates[i].raga_name)
                      /\ rows[i].arohana = join(candidates[i].arohana, " ")
                      /\ rows[i].avarohana = join(candidates[i].avarohana, " ")

C22_Witness ==
    /\ view.drawn
    /\ view.result.raga_candidates = <<>>
    /\ view.ragas.emptyState
    /\ view.ragas.rows = <<>>

\* C23: in every row the percentage text and the bar's target width are the
\* same string, n followed by '%', where n is a whole number nearest to the
\* confidence times 100 (the confidence is in thousandths, so n * 10 is
\* within 5 of it); once the animation has run the bar has that width.
C23_PercentTextIsTargetWidth ==
    view.drawn =>
        \A i \in DOMAIN view.ragas.rows :
            LET row == view.ragas.rows[i]
                confidence == view.result.raga_candidates[i].confidence
            IN /\ row.pctText = row.targetWidth
               /\ \E n \in 0..100 :
                     /\ row.pctText = <<n, "%">>
                     /\ n * 10 - confidence \in -5..5
               /\ ~view.ragas.animation => row.width = row.targetWidth

C23_Witness ==
    /\ view.drawn
    /\ \E i \in DOMAIN view.ragas.rows :
          /\ view.result.raga_candidates[i].confidence = 500
          /\ view.ragas.rows[i].pctText = <<50, "%">>
          /\ view.ragas.rows[i].targetWidth = <<50, "%">>

\* C24: every string of the result document that is inserted into markup is
\* inserted escaped: the summary values, the two notation strings, and in the
\* candidate rows and gamaka items the name, the number, the arohana and
\* avarohana symbols and the gamaka type hold no raw '<', '>' or '&'.
C24_ServiceTextEscaped ==
    LET Safe(text) == \A i \in DOMAIN text : text[i] \notin Special
    IN view.drawn =>
        /\ \A i \in DOMAIN view.summary : Safe(view.summary[i].value)
        /\ Safe(view.notationCompact)
        /\ Safe(view.notationFull)
        /\ \A i \in DOMAIN view.ragas.rows :
              /\ Safe(view.ragas.rows[i].name)
              /\ Safe(view.ragas.rows[i].number)
              /\ Safe(view.ragas.rows[i].arohana)
              /\ Safe(view.ragas.rows[i].avarohana)
        /\ \A i \in DOMAIN view.gamakas : Safe(view.gamakas[i].name)

\* C25: where the series has a voiced frame the time axis has exactly 6 tick
\* labels, each with a gridline, the frequency axis has exactly 4 tick
\* labels, and consecutive ticks are one step apart.
C25_SixAndFourTicks ==
    (view.drawn /\ ~view.result.pitch_contour.isNull
       /\ voiced(view.result.pitch_contour.frames) # <<>>) =>
        /\ Len(view.contour.timeLabels) = 6
        /\ Len(view.contour.gridlines) = 6
        /\ Len(view.contour.freqLabels) = 4
        /\ \A k \in 1..(Len(view.contour.timeLabels) - 1) :
              view.contour.timeLabels[k + 1] = view.contour.timeLabels[k] + 1
        /\ \A k \in 1..(Len(view.contour.freqLabels) - 1) :
              view.contour.freqLabels[k + 1] = view.contour.freqLabels[k] + 1

\* C26: for an absent or empty series the canvas holds the background and
\* the placeholder message only; for a series without a voiced frame it
\* holds the background only.
C26_NothingDrawnWithoutVoicedFrame ==
    view.drawn =>
        LET contour == view.result.pitch_contour
        IN IF contour.isNull \/ contour.frames = <<>>
           THEN view.contour =
                  [BlankCanvas EXCEPT !.background = TRUE, !.placeholder = TRUE]
           ELSE (\A i \in DOMAIN contour.frames : ~isVoiced(contour.frames[i]))
                  => view.contour = [BlankCanvas EXCEPT !.background = TRUE]

C26_Witness ==
    /\ view.drawn
    /\ view.result.pitch_contour = Contour(<<>>)
    /\ view.contour.background
    /\ view.contour.placeholder
    /\ view.contour.freqLabels = <<>>

\* C27: renderGamakas makes one item per distinct label, in order of first
\* occurrence, with the number of events of that label as its count, the
\* text 'segment' for a count of 1 and 'segments' otherwise, and the colour of
\* the table or the fallback colour.
C27_OneItemPerLabelInOrder ==
    view.drawn =>
        LET gamakas == view.result.gamakas
            firsts == SelectSeq([i \in DOMAIN gamakas |-> i],
                                LAMBDA i : \A j \in 1..(i - 1) :
                                    gamakas[j].gamaka_type # gamakas[i].gamaka_type)
            labels == [k \in DOMAIN firsts |-> gamakas[firsts[k]].gamaka_type]
            count(type) ==
                Cardinality({i \in DOMAIN gamakas : gamakas[i].gamaka_type = type})
        IN /\ Len(view.gamakas) = Len(labels)
           /\ \A k \in DOMAIN labels :
                 /\ view.gamakas[k].name = capitalize(labels[k])
                 /\ view.gamakas[k].count =
                       IF count(labels[k]) = 1 THEN <<1, " segment">>
                       ELSE <<count(labels[k]), " segment", "s">>
                 /\ view.gamakas[k].color =
                       IF labels[k] \in DOMAIN GAMAKA_COLORS
                       THEN GAMAKA_COLORS[labels[k]] ELSE "#6b7394"

\* ------------------------------------------------------ the codec's claims
\* C28: a MediaRecorder is asked for the first encoding of the preference
\* list that the runtime supports; where the runtime supports none of them,
\* or has no MediaRecorder, no encoding is asked for, every capture whose
\* device was acquired still proceeds, and its clip is tagged 'audio/webm'.
C28_FirstSupportedOrDefault ==
    \A r \in Recorders :
        IF mediaRecorderDefined /\ supported \cap Range(types) # {}
        THEN (rec[r].pc = "started") =>
                \E k \in DOMAIN types :
                    /\ rec[r].opts = <<types[k]>>
                    /\ types[k] \in supported
                    /\ \A j \in 1..(k - 1) : types[j] \notin supported
        ELSE /\ rec[r].opts = <<>>
             /\ (log[r].acquired > 0) => (rec[r].pc = "started")
             /\ (log[r].clips > 0) => (log[r].clipType = <<"audio/", "webm">>)

\* C29: the file part of every request made for a recorded clip is named
\* 'recording' with the extension of the encoding the clip was recorded
\* with: .webm for webm, .ogg for ogg, .m4a for mp4, and .webm where no
\* encoding was negotiated.
C29_ExtensionMatchesEncoding ==
    LET ExtensionOf(opts) ==
            IF opts = <<>> THEN ".webm"
            ELSE CASE opts[1][2] = "webm" -> ".webm"
                   [] opts[1][2] = "ogg" -> ".ogg"
                   [] opts[1][2] = "mp4" -> ".m4a"
    IN \A q \in DOMAIN requests :
        (requests[q].pc = "fetch" /\ ~requests[q].isFile) =>
            \E r \in Recorders :
                /\ log[r].clips > 0
                /\ ext(log[r].clipType) = ExtensionOf(rec[r].opts)
                /\ requests[q].file = <<"recording", ExtensionOf(rec[r].opts)>>

C29_Witness ==
    \E q \in DOMAIN requests, r \in Recorders :
        /\ requests[q].pc = "fetch"
        /\ requests[q].file = <<"recording", ".m4a">>
        /\ rec[r].opts = << <<"audio/", "mp4">> >>
        /\ log[r].clipType = <<"audio/", "mp4">>

\* ------------------------------------------------------ the clip's content
\* C31: the clip a stop() on an active session resolves with is the
\* concatenation, in arrival order, of exactly the non-empty chunks delivered
\* since start(); the buffer is empty when start() returns, is only appended
\* to, one chunk at a time, afterwards, and never holds a chunk of size 0.
C31_ClipIsTheNonEmptyChunksInOrder ==
    /\ [] (\A r \in Recorders :
             /\ 0 \notin Range(rec[r].audioChunks)
             /\ (log[r].clips > 0) =>
                   /\ log[r].clipParts =
                          SelectSeq(delivered[r], LAMBDA size : size > 0)
                   /\ log[r].clipParts = rec[r].audioChunks)
    /\ [][\A r \in Recorders :
             /\ (rec[r].pc # "started" /\ rec'[r].pc = "started") =>
                   rec'[r].audioChunks = <<>>
             /\ (rec[r].pc = "started") =>
                   \/ rec'[r].audioChunks = rec[r].audioChunks
                   \/ \E size \in WatchedSizes \ {0} :
                         rec'[r].audioChunks = Append(rec[r].audioChunks, size)]_vars

C31_Witness ==
    \E r \in Recorders :
        /\ log[r].clips = 1
        /\ delivered[r] = <<2, 1>>
        /\ log[r].clipParts = <<2, 1>>
        /\ \E o \in Recorders : delivered[o] = <<0, 0>> /\ log[o].clips = 1

\* ------------------------------------------------- the controller's claims
\* C32: the affordances are a function of the session state: the record
\* trigger and the file input are enabled exactly in Idle, the stop trigger
\* exactly in Recording, the processing card is shown exactly in Processing,
\* the results card exactly in Results, and the two cards are never shown
\* together.
C32_AffordancesFollowState ==
    /\ ~dom.btnRecordDisabled <=> dom.state = "idle"
    /\ ~dom.fileInputDisabled <=> dom.state = "idle"
    /\ ~dom.btnStopDisabled <=> dom.state = "recording"
    /\ dom.processingCard = "block" <=> dom.state = "processing"
    /\ dom.resultsCard = "block" <=> dom.state = "results"
    /\ ~(dom.processingCard = "block" /\ dom.resultsCard = "block")

C32_Witness ==
    /\ dom.state = "recording"
    /\ ~dom.btnStopDisabled
    /\ dom.btnRecordDisabled
    /\ dom.fileInputDisabled
    /\ dom.processingCard = "none"
    /\ dom.resultsCard = "none"
    /\ Issued = 1
    /\ requests[1] = Returned

\* C33: whenever the session state is Results, a result is stored (lastResult
\* is not null).
C33_ResultsHoldsResult == (dom.state = "results") => (lastResult # 0)

\* C34: whenever the session state is Idle, no result is stored (lastResult
\* is null); a submission that ends in the catch of runAnalysis, by a failed
\* request or by an exception while the result is drawn, leaves lastResult
\* as it was.
C34_IdleHoldsNoResult ==
    /\ [] ((dom.state = "idle") => (lastResult = 0))
    /\ [][\A q \in 1..MaxRequests :
             (requests[q].pc \in {"fetch", "pause200"} /\ requests'[q] = Returned) =>
                 lastResult' = lastResult]_vars

\* ------------------------------------------------- the contour's geometry
\* C35: for every non-empty series with at least one voiced frame, a series
\* of one frame included, the axis ranges are not degenerate (tMin < tMax and
\* fMin < fMax), every frame the drawing loops do not skip gets a point, and
\* every point of the line and of the shading lies within the time range and,
\* unless it is on the bottom edge, within the frequency range.
C35_ContourWithinThePlot ==
    (/\ view.drawn
     /\ ~view.result.pitch_contour.isNull
     /\ voiced(view.result.pitch_contour.frames) # <<>>) =>
        LET frames == view.result.pitch_contour.frames
            Points(path) == UNION {Range(path[k]) : k \in DOMAIN path}
            Within(pt) ==
                /\ tMin(frames) <= pt.x /\ pt.x <= tMax(frames)
                /\ \/ pt.bottom
                   \/ fMin(frames) <= 10 * pt.hz /\ 10 * pt.hz <= fMax(frames)
        IN /\ tMin(frames) < tMax(frames)
           /\ fMin(frames) < fMax(frames)
           /\ \A i \in DOMAIN frames :
                 ~isSkipped(frames[i]) =>
                     \E pt \in Points(view.contour.line) :
                         pt.x = frames[i].timestamp_ms
           /\ \A pt \in Points(view.contour.line) \cup Points(view.contour.shading) :
                 Within(pt)

\* C36: the frames drawn in the contour line and in the shading are exactly
\* the frames counted as voiced for the frequency bounds (frequency > 0 and
\* confidence > 0.2), a frame whose confidence is exactly 0.2 included; shown
\* on series whose time range is not degenerate, where every call draws.
C36_DrawnFramesAreTheVoicedFrames ==
    (/\ view.drawn
     /\ ~view.result.pitch_contour.isNull
     /\ voiced(view.result.pitch_contour.frames) # <<>>
     /\ Len(view.result.pitch_contour.frames) > 1) =>
        LET frames == view.result.pitch_contour.frames
            Counted == {f.timestamp_ms : f \in Range(voiced(frames))}
            Drawn(path) ==
                {pt.x : pt \in {q \in UNION {Range(path[k]) : k \in DOMAIN path} :
                                   ~q.bottom}}
        IN /\ Drawn(view.contour.line) = Counted
           /\ Drawn(view.contour.shading) = Counted

\* ------------------------------------------------ the auto-stop's callbacks
\* C37: within a session every call of onMaxReached comes after an
\* onDurationUpdate call that reported elapsed >= maxDurationMs, and after the
\* interval callback that made that report and stopped the session the timer
\* is cleared and no interval callback, hence no onDurationUpdate, runs.
C37_MaxReachedAfterItsUpdate ==
    /\ [] (\A r \in Recorders :
             /\ (log[r].maxReached > 0) => log[r].reportedMax
             /\ log[r].reportedMax => ~rec[r].timerInterval)
    /\ [][\A r \in Recorders :
             /\ (log'[r].maxReached > log[r].maxReached) => log[r].reportedMax
             /\ log[r].reportedMax => ~intervalCallback(r)]_vars

C37_Witness ==
    \E r \in Recorders :
        /\ log[r].maxReached = 1
        /\ log[r].reportedMax
        /\ log[r].clips = 1
        /\ ~rec[r].timerInterval
        /\ ~log[r].lateUpdates

\* ------------------------------------------------------ Processing ends
\* C38: provided every analysis call settles, the controller does not stay in
\* Processing: every Processing state is followed by Results or Idle, every
\* runAnalysis call returns, having set Results (success) or Idle (failure) as
\* its last act, and whenever Idle is set, by an error or by a reset, the
\* record trigger and the file input are enabled.
C38_ProcessingEnds ==
    /\ (dom.state = "processing") ~> (dom.state \in {"results", "idle"})
    /\ \A q \in 1..MaxRequests :
          (requests[q].pc = "fetch") ~> (requests[q] = Returned)
    /\ [][\A q \in 1..MaxRequests :
             (requests[q].pc \notin {"none", "returned"} /\ requests'[q] = Returned) =>
                 \/ requests[q].pc = "pause300" /\ dom'.state = "results"
                 \/ requests[q].pc # "pause300" /\ dom'.state = "idle"
                                               /\ recordingStatus'.error]_vars
    /\ [][(dom'.state = "idle") =>
             (~dom'.btnRecordDisabled /\ ~dom'.fileInputDisabled)]_vars

C38_Witness ==
    /\ Issued = 2
    /\ requests[1] = Returned
    /\ requests[2] = Returned
    /\ dom.state = "results"

\* ------------------------------------------------------ the initialization
\* C39: whatever the preset fetch ends in, the handler attaches the four
\* triggers and sets Idle with the record trigger and the file input enabled
\* and the stop trigger disabled; no trigger acts before that; and
\* getTuningPresets is called once in the whole run, captures and analyses
\* included.
C39_PresetFailureTolerated ==
    /\ [] (/\ presets.calls = 1
           /\ (presets.pc = "settled") => presets.wired
           /\ ~presets.wired => (created = 0 /\ filesChosen = 0 /\ Issued = 0))
    /\ [][(presets.pc = "pending" /\ presets'.pc = "settled") =>
             /\ presets'.wired
             /\ dom'.state = "idle"
             /\ ~dom'.btnRecordDisabled
             /\ ~dom'.fileInputDisabled
             /\ dom'.btnStopDisabled]_vars

C39_Witness ==
    /\ presets.options = "none"
    /\ presets.wired
    /\ presets.calls = 1
    /\ created = 1
    /\ filesChosen = 1
    /\ dom.state = "results"

====
